---------------------------- MODULE Spec2Model ----------------------------
(***************************************************************************)
(* A model of the DNS server of observer04/dns-server-go: the wire codec   *)
(* (app/dns/header.go, question.go, answer.go, message.go) and the         *)
(* forwarding engine (app/server.go).                                      *)
(*                                                                         *)
(* Byte buffers are sequences of naturals 0..255; Go's 0-based index i is  *)
(* the sequence index i+1.  Every function that can fail returns a record  *)
(* whose field err is "" on success and the code's error text otherwise;   *)
(* err = "panic" stands for Go's run-time "index out of range" panic.      *)
(*                                                                         *)
(* Where the code stores the result of a call in a local variable, the     *)
(* model writes CHOOSE x \in {F(r) : r \in {call}} : TRUE, which is F(call) *)
(* with the call computed once and its result named r.                     *)
(***************************************************************************)
EXTENDS Integers, Sequences, FiniteSets, TLC

VARIABLES
    data,       \* decodeName: the buffer
    offset,     \* decodeName: the start offset
    walk,       \* decodeName: the loop's local variables
    buf,        \* message codec: the datagram handed to Parse / ParseComplete
    parsed,     \* message codec: what the call returned
    hdr,        \* header codec: a request header
    rhdr,       \* header codec: the response header built from it
    resolver,   \* server: the resolver address ("" in standalone mode)
    pc,         \* server: where Run is: "recv" (blocked in ReadFromUDP),
                \*   "handle" (calling HandleQuery), "dial", "write", "read"
                \*   (in forwardSingleQuery), "returned" (from it), "stopped"
    inbuf,      \* server: the datagram being handled, buf[:size]
    request,    \* server: the parsed request
    qi,         \* server: the question being forwarded by
                \*   forwardMultipleQuestions (0 when forwardQuery forwards
                \*   the request itself)
    allAnswers, \* server: the answers collected by forwardMultipleQuestions
    connOpen,   \* server: the upstream connection is open
    wire,       \* server: the bytes written to the upstream connection
    exch,       \* history: the upstream exchanges made for this datagram
    last        \* history: what became of this datagram

nameVars == <<data, offset, walk>>
codecVars == <<buf, parsed>>
headerVars == <<hdr, rhdr>>
serverVars ==
    <<resolver, pc, inbuf, request, qi, allAnswers, connOpen, wire, exch, last>>
vars == <<nameVars, codecVars, headerVars, serverVars>>

(***************************************************************************)
(* Bounds of the model                                                     *)
(***************************************************************************)
\* longest buffer handed to decodeName as a whole (SpecName)
MaxLen == 5
\* longest buffer handed to decodeName one loop iteration at a time (SpecWalk)
WalkLen == 4
\* most records (questions and answers) in a datagram handed to the parsers
MaxRecs == 2
\* most questions in a client request
MaxQ == 2
\* most answers in a reply of the resolver
MaxAns == 2

(***************************************************************************)
(* Name codec: app/dns/question.go, decodeName                             *)
(***************************************************************************)
\* maxLoops := 1000
maxLoops == 1000

\* b&0xC0 == 0xC0
IsPointer(b) == b \div 64 = 3

\* binary.BigEndian.Uint16(d[i : i+2])
Uint16(d, i) == d[i + 1] * 256 + d[i + 2]

\* binary.BigEndian.Uint32(d[i : i+4]).  A uint32 is held as its two 16-bit
\* halves <<high, low>>: the checker's integers are 32-bit signed.
Uint32(d, i) == <<Uint16(d, i), Uint16(d, i + 2)>>

\* the uint32 of a small constant
U32(n) == <<n \div 65536, n % 65536>>

\* the slice expression d[lo:hi] is legal (Go panics otherwise)
Readable(d, lo, hi) == 0 <= lo /\ lo <= hi /\ hi <= Len(d)

\* d[lo:hi]
Slice(d, lo, hi) == SubSeq(d, lo + 1, hi)

\* the locals of decodeName before the first loop iteration
decodeStart(off) ==
    [currentOffset |-> off, bytesConsumed |-> 0, jumped |-> FALSE, loops |-> 0,
     name |-> <<>>, st |-> "run", err |-> ""]

\* return nil, 0, fmt.Errorf(e)
decodeFail(s, e) ==
    [s EXCEPT !.loops = s.loops + 1, !.name = <<>>, !.bytesConsumed = 0,
              !.st = "err", !.err = e]

\* a mutant of tooManyLoops: the ceiling is twice maxLoops
tooManyLoopsLate(loops) == loops > 2 * maxLoops

\* if loops > maxLoops
tooManyLoops(loops) == loops > maxLoops

\* a mutant of pointerTarget: the two flag bits are not masked off
pointerTargetUnmasked(d, cur) == Uint16(d, cur)

\* ptr := binary.BigEndian.Uint16(data[currentOffset : currentOffset+2])
\* newOffset := int(ptr & 0x3FFF)
pointerTarget(d, cur) == Uint16(d, cur) % 16384

\* a mutant of consume: bytes read after a jump are counted too
consumeAlways(s, n) == s.bytesConsumed + n

\* if !jumped { bytesConsumed += n }
consume(s, n) == IF s.jumped THEN s.bytesConsumed ELSE s.bytesConsumed + n

\* a mutant of decodeStep: the two bytes of a pointer are kept in the name
decodeStepKeepPointer(d, s) ==
    LET cur == s.currentOffset IN
    IF tooManyLoops(s.loops + 1) THEN decodeFail(s, "too many jumps or labels")
    ELSE IF cur >= Len(d) THEN decodeFail(s, "offset out of bounds")
    ELSE IF ~Readable(d, cur, cur + 1) THEN decodeFail(s, "panic")
    ELSE LET b == d[cur + 1] IN
         IF IsPointer(b)
         THEN IF cur + 1 >= Len(d) THEN decodeFail(s, "pointer incomplete")
              ELSE IF ~Readable(d, cur, cur + 2) THEN decodeFail(s, "panic")
              ELSE [s EXCEPT !.loops = @ + 1,
                             !.bytesConsumed = consume(s, 2),
                             !.currentOffset = pointerTarget(d, cur),
                             !.name = @ \o Slice(d, cur, cur + 2),
                             !.jumped = TRUE]
         ELSE IF b = 0
         THEN [s EXCEPT !.loops = @ + 1,
                        !.bytesConsumed = consume(s, 1),
                        !.currentOffset = cur + 1,
                        !.name = Append(@, 0), !.st = "ok"]
         ELSE IF cur + 1 + b > Len(d)
         THEN decodeFail(s, "label length out of bounds")
         ELSE IF ~Readable(d, cur + 1, cur + 1 + b) THEN decodeFail(s, "panic")
         ELSE [s EXCEPT !.loops = @ + 1,
                        !.bytesConsumed = consume(s, 1 + b),
                        !.currentOffset = cur + 1 + b,
                        !.name = @ \o <<b>> \o Slice(d, cur + 1, cur + 1 + b)]

\* one iteration of the for loop of decodeName
decodeStep(d, s) ==
    LET cur == s.currentOffset IN
    IF tooManyLoops(s.loops + 1) THEN decodeFail(s, "too many jumps or labels")
    ELSE IF cur >= Len(d) THEN decodeFail(s, "offset out of bounds")
    ELSE IF ~Readable(d, cur, cur + 1) THEN decodeFail(s, "panic")
    ELSE LET b == d[cur + 1] IN
         IF IsPointer(b)
         THEN IF cur + 1 >= Len(d) THEN decodeFail(s, "pointer incomplete")
              ELSE IF ~Readable(d, cur, cur + 2) THEN decodeFail(s, "panic")
              ELSE [s EXCEPT !.loops = @ + 1,
                             !.bytesConsumed = consume(s, 2),
                             !.currentOffset = pointerTarget(d, cur),
                             !.jumped = TRUE]
         ELSE IF b = 0
         THEN [s EXCEPT !.loops = @ + 1,
                        !.bytesConsumed = consume(s, 1),
                        !.currentOffset = cur + 1,
                        !.name = Append(@, 0), !.st = "ok"]
         ELSE IF cur + 1 + b > Len(d)
         THEN decodeFail(s, "label length out of bounds")
         ELSE IF ~Readable(d, cur + 1, cur + 1 + b) THEN decodeFail(s, "panic")
         ELSE [s EXCEPT !.loops = @ + 1,
                        !.bytesConsumed = consume(s, 1 + b),
                        !.currentOffset = cur + 1 + b,
                        !.name = @ \o <<b>> \o Slice(d, cur + 1, cur + 1 + b)]

RECURSIVE decodeIter(_, _, _)
\* up to n iterations of the for loop of decodeName, stopping at its return
\* (the iterations are halved so that the evaluation stays shallow, and the
\* state after the first half is bound as a value so that it is computed
\* once)
decodeIter(d, s, n) ==
    IF s.st # "run" \/ n = 0 THEN s
    ELSE IF n = 1 THEN decodeStep(d, s)
    ELSE CHOOSE r \in {decodeIter(d, t, n - (n \div 2)) :
                         t \in {decodeIter(d, s, n \div 2)}} : TRUE

\* the for loop of decodeName, run to its return: the iteration after the
\* maxLoops-th returns an error
decodeLoop(d, s) == decodeIter(d, s, maxLoops + 1)

\* decodeName(data, offset)
decodeName(d, off) == decodeLoop(d, decodeStart(off))

(***************************************************************************)
(* Header codec: app/dns/header.go                                         *)
(***************************************************************************)
ZeroHeader ==
    [ID |-> 0, Flags |-> 0, QDCount |-> 0, ANCount |-> 0, NSCount |-> 0,
     ARCount |-> 0]

\* DNSHeader.Parse
HeaderParse(d) ==
    IF Len(d) < 12 THEN [err |-> "data too short for header", h |-> ZeroHeader]
    ELSE IF ~Readable(d, 0, 12) THEN [err |-> "panic", h |-> ZeroHeader]
    ELSE [err |-> "",
          h |-> [ID |-> Uint16(d, 0), Flags |-> Uint16(d, 2),
                 QDCount |-> Uint16(d, 4), ANCount |-> Uint16(d, 6),
                 NSCount |-> Uint16(d, 8), ARCount |-> Uint16(d, 10)]]

\* a mutant of responseRcode: every request is answered with RCODE 0
responseRcodeZero(opcode) == 0

\* rcode = 4 if opcode != 0, else 0
responseRcode(opcode) == IF opcode # 0 THEN 4 ELSE 0

\* a mutant of HeaderBuildResponse: QDCount is left at 0
HeaderBuildResponseNoCounts(h) ==
    LET opcode == (h.Flags \div 2048) % 16
        rd == ((h.Flags \div 256) % 2) * 256
        flags == 32768 + opcode * 2048 + rd + responseRcode(opcode)
    IN  [ID |-> h.ID, Flags |-> flags, QDCount |-> 0, ANCount |-> 0,
         NSCount |-> 0, ARCount |-> 0]

\* DNSHeader.BuildResponse.  The flag fields set occupy different bits, so
\* or-ing them together is adding them.
HeaderBuildResponse(h) ==
    LET opcode == (h.Flags \div 2048) % 16
        rd == ((h.Flags \div 256) % 2) * 256
        flags == 32768 + opcode * 2048 + rd + responseRcode(opcode)
    IN  [ID |-> h.ID, Flags |-> flags, QDCount |-> h.QDCount, ANCount |-> 0,
         NSCount |-> 0, ARCount |-> 0]

\* a mutant of PutUint16: the low byte is written first
PutUint16LittleEndian(v) == <<v % 256, v \div 256>>

\* binary.BigEndian.PutUint16
PutUint16(v) == <<(v \div 256) % 256, v % 256>>

\* binary.BigEndian.PutUint32
PutUint32(v) == PutUint16(v[1]) \o PutUint16(v[2])

\* DNSHeader.Encode
HeaderEncode(h) ==
    PutUint16(h.ID) \o PutUint16(h.Flags) \o PutUint16(h.QDCount)
      \o PutUint16(h.ANCount) \o PutUint16(h.NSCount) \o PutUint16(h.ARCount)

(***************************************************************************)
(* Question codec: app/dns/question.go                                     *)
(***************************************************************************)
ZeroQuestion == [QName |-> <<>>, QType |-> 0, QClass |-> 0]

\* a mutant of questionFields: QTYPE and QCLASS are read without the length
\* check
questionFieldsUnchecked(d, cur, r) ==
    IF r.st # "ok" THEN [err |-> r.err, next |-> 0, q |-> ZeroQuestion]
    ELSE IF ~Readable(d, cur, cur + 4)
    THEN [err |-> "panic", next |-> 0, q |-> ZeroQuestion]
    ELSE [err |-> "", next |-> cur + 4,
          q |-> [QName |-> r.name, QType |-> Uint16(d, cur),
                 QClass |-> Uint16(d, cur + 2)]]

\* Question.Parse after decodeName returned r: cur is the offset after the
\* name, next the offset after the question
questionFields(d, cur, r) ==
    IF r.st # "ok" THEN [err |-> r.err, next |-> 0, q |-> ZeroQuestion]
    ELSE IF cur + 4 > Len(d)
    THEN [err |-> "insufficient data for QTYPE/QCLASS", next |-> 0,
          q |-> ZeroQuestion]
    ELSE IF ~Readable(d, cur, cur + 4)
    THEN [err |-> "panic", next |-> 0, q |-> ZeroQuestion]
    ELSE [err |-> "", next |-> cur + 4,
          q |-> [QName |-> r.name, QType |-> Uint16(d, cur),
                 QClass |-> Uint16(d, cur + 2)]]

\* currentOffset := offset + bytesConsumed
afterName(off, r) == off + r.bytesConsumed

\* Question.Parse
QuestionParse(d, off) ==
    CHOOSE x \in {questionFields(d, afterName(off, r), r) :
                    r \in {decodeName(d, off)}} : TRUE

\* Question.Encode
QuestionEncode(q) == q.QName \o PutUint16(q.QType) \o PutUint16(q.QClass)

(***************************************************************************)
(* Answer codec: app/dns/answer.go                                         *)
(***************************************************************************)
ZeroAnswer ==
    [Name |-> <<>>, Type |-> 0, Class |-> 0, TTL |-> U32(0), RDLength |-> 0,
     RData |-> <<>>]

\* a mutant of shortOfRData: RDLENGTH is trusted
shortOfRDataUnchecked(d, cur, rdlen) == FALSE

\* if currentOffset+int(a.RDLength) > len(data)
shortOfRData(d, cur, rdlen) == cur + rdlen > Len(d)

\* DNSAnswer.Parse after the fixed fields: cur is the offset of RDATA
answerRData(d, cur, rdlen, r) ==
    IF shortOfRData(d, cur, rdlen)
    THEN [err |-> "insufficient data for RData", next |-> 0, a |-> ZeroAnswer]
    ELSE IF ~Readable(d, cur, cur + rdlen)
    THEN [err |-> "panic", next |-> 0, a |-> ZeroAnswer]
    ELSE [err |-> "", next |-> cur + rdlen,
          a |-> [Name |-> r.name, Type |-> Uint16(d, cur - 10),
                 Class |-> Uint16(d, cur - 8), TTL |-> Uint32(d, cur - 6),
                 RDLength |-> rdlen, RData |-> Slice(d, cur, cur + rdlen)]]

\* DNSAnswer.Parse after decodeName returned r: cur is the offset after the
\* name, next the offset after the answer.  (The code wraps a name error as
\* "failed to parse answer name: <error>"; err keeps <error>.)
answerFields(d, cur, r) ==
    IF r.st # "ok" THEN [err |-> r.err, next |-> 0, a |-> ZeroAnswer]
    ELSE IF cur + 10 > Len(d)
    THEN [err |-> "insufficient data for answer fields", next |-> 0,
          a |-> ZeroAnswer]
    ELSE IF ~Readable(d, cur, cur + 10)
    THEN [err |-> "panic", next |-> 0, a |-> ZeroAnswer]
    ELSE answerRData(d, cur + 10, Uint16(d, cur + 8), r)

\* DNSAnswer.Parse
AnswerParse(d, off) ==
    CHOOSE x \in {answerFields(d, afterName(off, r), r) :
                    r \in {decodeName(d, off)}} : TRUE

\* a mutant of AnswerEncode: the name is written as a pointer to the first
\* question
AnswerEncodeCompressed(a) ==
    <<192, 12>> \o PutUint16(a.Type) \o PutUint16(a.Class) \o PutUint32(a.TTL)
      \o PutUint16(a.RDLength) \o a.RData

\* DNSAnswer.Encode
AnswerEncode(a) ==
    a.Name \o PutUint16(a.Type) \o PutUint16(a.Class) \o PutUint32(a.TTL)
      \o PutUint16(a.RDLength) \o a.RData

(***************************************************************************)
(* Message coordinator: app/dns/message.go                                 *)
(***************************************************************************)
\* A parse returns err, the message, and where it stopped: sect is the
\* section and at the offset of the record whose decoding failed (on
\* success, sect = "" and at is the offset after the last record).

RECURSIVE parseQuestions(_, _, _, _)
\* the body of the question loop, after q.Parse returned r
questionParsed(d, off, n, qs, r) ==
    IF r.err # "" THEN [err |-> r.err, at |-> off, qs |-> qs]
    ELSE parseQuestions(d, r.next, n - 1, Append(qs, r.q))

\* for i := uint16(0); i < msg.Header.QDCount; i++ { q.Parse(data, offset) }
parseQuestions(d, off, n, qs) ==
    IF n = 0 THEN [err |-> "", at |-> off, qs |-> qs]
    ELSE CHOOSE x \in {questionParsed(d, off, n, qs, r) :
                         r \in {QuestionParse(d, off)}} : TRUE

RECURSIVE parseAnswers(_, _, _, _)
\* the body of the answer loop, after a.Parse returned r
answerParsed(d, off, n, as, r) ==
    IF r.err # "" THEN [err |-> r.err, at |-> off, as |-> as]
    ELSE parseAnswers(d, r.next, n - 1, Append(as, r.a))

\* for i := uint16(0); i < msg.Header.ANCount; i++ { a.Parse(data, offset) }
parseAnswers(d, off, n, as) ==
    IF n = 0 THEN [err |-> "", at |-> off, as |-> as]
    ELSE CHOOSE x \in {answerParsed(d, off, n, as, r) :
                         r \in {AnswerParse(d, off)}} : TRUE

ZeroMessage == [Header |-> ZeroHeader, Questions |-> <<>>, Answers |-> <<>>]

\* Parse after the question loop returned qs
questionsParsed(h, qs) ==
    [err |-> qs.err, sect |-> IF qs.err # "" THEN "question" ELSE "",
     at |-> qs.at,
     msg |-> [Header |-> h, Questions |-> qs.qs, Answers |-> <<>>]]

\* Parse after msg.Header.Parse returned h
headerParsed(d, h) ==
    IF h.err # ""
    THEN [err |-> h.err, sect |-> "header", at |-> 0, msg |-> ZeroMessage]
    ELSE CHOOSE x \in {questionsParsed(h.h, qs) :
                         qs \in {parseQuestions(d, 12, h.h.QDCount, <<>>)}} : TRUE

\* DNSMessage.Parse: header and questions only
MessageParse(d) ==
    CHOOSE x \in {headerParsed(d, h) : h \in {HeaderParse(d)}} : TRUE

\* ParseComplete after the answer loop returned as
answersParsed(r, as) ==
    [err |-> as.err, sect |-> IF as.err # "" THEN "answer" ELSE "",
     at |-> as.at,
     msg |-> [r.msg EXCEPT !.Answers = as.as]]

\* ParseComplete after its header and question part, which is Parse's,
\* returned r
withAnswers(d, r) ==
    IF r.err # "" THEN r
    ELSE CHOOSE x \in {answersParsed(r, as) :
                         as \in {parseAnswers(d, r.at, r.msg.Header.ANCount,
                                               <<>>)}} : TRUE

\* DNSMessage.ParseComplete: header, questions and answers
MessageParseComplete(d) ==
    CHOOSE x \in {withAnswers(d, r) : r \in {MessageParse(d)}} : TRUE

RECURSIVE Concat(_)
\* the concatenation of a sequence of byte sequences
Concat(ss) == IF ss = <<>> THEN <<>> ELSE Head(ss) \o Concat(Tail(ss))

\* DNSMessage.Encode
MessageEncode(m) ==
    HeaderEncode(m.Header)
      \o Concat([i \in 1..Len(m.Questions) |-> QuestionEncode(m.Questions[i])])
      \o Concat([i \in 1..Len(m.Answers) |-> AnswerEncode(m.Answers[i])])

\* a mutant of answerType: the dummy record is always an A record
answerTypeA(q) == 1

\* Type: q.QType, // Use the requested type
answerType(q) == q.QType

\* DNSMessage.BuildResponse
MessageBuildResponse(m) ==
    LET n == Len(m.Questions)
        header == [HeaderBuildResponse(m.Header) EXCEPT
                     !.QDCount = n % 65536, !.ANCount = n % 65536]
    IN  [Header |-> header,
         Questions |-> m.Questions,
         Answers |-> [i \in 1..n |->
                        [Name |-> m.Questions[i].QName,
                         Type |-> answerType(m.Questions[i]),
                         Class |-> m.Questions[i].QClass,
                         TTL |-> U32(60), RDLength |-> 4,
                         RData |-> <<8, 8, 8, 8>>]]]

(***************************************************************************)
(* Forwarding engine: app/server.go                                        *)
(***************************************************************************)
\* a mutant of singleQuery: every sub-query asks the first question
singleQueryFirst(req, i) ==
    [Header |-> [ID |-> req.Header.ID, Flags |-> req.Header.Flags,
                 QDCount |-> 1, ANCount |-> 0, NSCount |-> 0, ARCount |-> 0],
     Questions |-> <<req.Questions[1]>>,
     Answers |-> <<>>]

\* singleQuery := dns.DNSMessage{...} for the i-th question
singleQuery(req, i) ==
    [Header |-> [ID |-> req.Header.ID, Flags |-> req.Header.Flags,
                 QDCount |-> 1, ANCount |-> 0, NSCount |-> 0, ARCount |-> 0],
     Questions |-> <<req.Questions[i]>>,
     Answers |-> <<>>]

\* a mutant of appendAnswers: the new answers are put first
prependAnswers(all, new) == new \o all

\* allAnswers = append(allAnswers, response.Answers...)
appendAnswers(all, new) == all \o new

\* mergedResponse := dns.DNSMessage{...}
mergedResponse(req, all) ==
    [Header |-> [ID |-> req.Header.ID,
                 Flags |-> HeaderBuildResponse(req.Header).Flags,
                 QDCount |-> Len(req.Questions) % 65536,
                 ANCount |-> Len(all) % 65536,
                 NSCount |-> 0, ARCount |-> 0],
     Questions |-> req.Questions,
     Answers |-> all]

(***************************************************************************)
(* Inputs of the name codec                                                *)
(***************************************************************************)
\* bytes the buffers are made of: a terminator, two label lengths (which are
\* also offsets and label bytes) and the first byte of a pointer
NameBytes == {0, 1, 2, 192}

\* a smaller alphabet for the iteration-by-iteration walk
WalkBytes == {0, 1, 192}

SeqsUpTo(S, n) == UNION {[1..k -> S] : k \in 0..n}

(***************************************************************************)
(* The parts of the state a specification does not use stay at these values *)
(***************************************************************************)
NameIdle == data = <<>> /\ offset = 0 /\ walk = decodeStart(0)

CodecIdle == buf = <<>> /\ parsed = [fn |-> "none"]

HeaderIdle == hdr = ZeroHeader /\ rhdr = ZeroHeader

NoOutcome == [kind |-> "none", bytes |-> <<>>, msg |-> ZeroMessage]

ServerIdle ==
    /\ resolver = "" /\ pc = "stopped" /\ inbuf = <<>> /\ request = ZeroMessage
    /\ qi = 0 /\ allAnswers = <<>> /\ connOpen = FALSE /\ wire = <<>>
    /\ exch = <<>> /\ last = NoOutcome

(***************************************************************************)
(* SpecName: decodeName applied to every small buffer and offset           *)
(***************************************************************************)
InitName ==
    /\ data \in SeqsUpTo(NameBytes, MaxLen)
    /\ offset \in 0..Len(data)
    /\ walk = decodeStart(offset)
    /\ CodecIdle /\ HeaderIdle /\ ServerIdle

DecodeName ==
    /\ walk.st = "run"
    /\ walk.loops = 0
    /\ walk' = decodeName(data, offset)
    /\ UNCHANGED <<data, offset, codecVars, headerVars, serverVars>>

NextName == DecodeName

SpecName == InitName /\ [][NextName]_vars

(***************************************************************************)
(* SpecChain: decodeName on buffers put together from terminators, labels  *)
(* and pointers to the places where such parts start                       *)
(***************************************************************************)
\* most parts in a buffer
MaxParts == 4

\* a terminator, a label, and pointers to offsets 0, 1 and 3
ChainParts == {<<0>>, <<1, 97>>, <<192, 0>>, <<192, 1>>, <<192, 3>>}

ChainBuffers == {Concat(ps) : ps \in SeqsUpTo(ChainParts, MaxParts)}

InitChain ==
    /\ data \in ChainBuffers
    /\ offset \in 0..Len(data)
    /\ walk = decodeStart(offset)
    /\ CodecIdle /\ HeaderIdle /\ ServerIdle

SpecChain == InitChain /\ [][NextName]_vars

(***************************************************************************)
(* SpecWalk: decodeName one loop iteration at a time                       *)
(***************************************************************************)
InitWalk ==
    /\ data \in SeqsUpTo(WalkBytes, WalkLen)
    /\ offset \in 0..Len(data)
    /\ walk = decodeStart(offset)
    /\ CodecIdle /\ HeaderIdle /\ ServerIdle

\* an iteration that follows a pointer
WalkPointer ==
    /\ walk.st = "run"
    /\ walk' = decodeStep(data, walk)
    /\ walk'.st = "run"
    /\ walk'.jumped /\ walk'.name = walk.name
    /\ UNCHANGED <<data, offset, codecVars, headerVars, serverVars>>

\* an iteration that reads a label
WalkLabel ==
    /\ walk.st = "run"
    /\ walk' = decodeStep(data, walk)
    /\ walk'.st = "run"
    /\ walk'.name # walk.name
    /\ UNCHANGED <<data, offset, codecVars, headerVars, serverVars>>

\* the iteration that reads the terminating zero byte
WalkEnd ==
    /\ walk.st = "run"
    /\ walk' = decodeStep(data, walk)
    /\ walk'.st = "ok"
    /\ UNCHANGED <<data, offset, codecVars, headerVars, serverVars>>

\* an iteration that returns an error
WalkFail ==
    /\ walk.st = "run"
    /\ walk' = decodeStep(data, walk)
    /\ walk'.st = "err"
    /\ UNCHANGED <<data, offset, codecVars, headerVars, serverVars>>

NextWalk == WalkPointer \/ WalkLabel \/ WalkEnd \/ WalkFail

SpecWalk == InitWalk /\ [][NextWalk]_vars /\ WF_vars(NextWalk)

(***************************************************************************)
(* SpecCodec: Parse and ParseComplete applied to well-formed, malformed    *)
(* and truncated datagrams                                                 *)
(***************************************************************************)
\* QTYPE=A, QCLASS=IN
QTail == <<0, 1, 0, 1>>

\* TYPE=A, CLASS=IN, TTL=60, RDLENGTH=4, RDATA=8.8.8.8
ATail == <<0, 1, 0, 1, 0, 0, 0, 60, 0, 4, 8, 8, 8, 8>>

\* names as written in a question: plain, a pointer to offset 12, a pointer
\* past every buffer, a label longer than what follows it in a question
QWireNames == {<<1, 97, 0>>, <<192, 12>>, <<192, 255>>, <<9, 97, 0>>}

\* names as written in an answer: a pointer to offset 12, a label followed by
\* a pointer, the root name
AWireNames == {<<192, 12>>, <<1, 98, 192, 12>>, <<0>>}

QRecs == {n \o QTail : n \in QWireNames}

ARecs == {n \o ATail : n \in AWireNames}

\* the records after the header: questions, then answers
CodecBodies ==
    {Concat(qs \o as) :
        <<qs, as>> \in {p \in SeqsUpTo(QRecs, MaxRecs) \X SeqsUpTo(ARecs, MaxRecs) :
                          Len(p[1]) + Len(p[2]) <= MaxRecs}}

\* headers whose counts need not match the records that follow
CodecHeaders ==
    {HeaderEncode([ID |-> 4660, Flags |-> 256, QDCount |-> qd, ANCount |-> an,
                   NSCount |-> 0, ARCount |-> 0]) :
        <<qd, an>> \in {p \in (0..MaxRecs) \X (0..MaxRecs) : p[1] + p[2] <= MaxRecs}}

Prefixes(d) == {SubSeq(d, 1, n) : n \in 0..Len(d)}

CodecInputs == UNION {Prefixes(h \o b) : <<h, b>> \in CodecHeaders \X CodecBodies}

InitCodec ==
    /\ buf \in CodecInputs
    /\ parsed = [fn |-> "none"]
    /\ NameIdle /\ HeaderIdle /\ ServerIdle

\* request.Parse(data)
DoParse ==
    /\ parsed.fn = "none"
    /\ parsed' = [fn |-> "Parse", r |-> MessageParse(buf)]
    /\ UNCHANGED <<buf, nameVars, headerVars, serverVars>>

\* response.ParseComplete(responseBytes)
DoParseComplete ==
    /\ parsed.fn = "none"
    /\ parsed' = [fn |-> "ParseComplete", r |-> MessageParseComplete(buf)]
    /\ UNCHANGED <<buf, nameVars, headerVars, serverVars>>

NextCodec == DoParse \/ DoParseComplete

SpecCodec == InitCodec /\ [][NextCodec]_vars

(***************************************************************************)
(* SpecHeader: BuildResponse applied to every 16-bit Flags value           *)
(***************************************************************************)
\* the other header fields of the requests
HeaderIDs == {4660, 43981}

HeaderCounts == {0, 2}

InitHeader ==
    /\ hdr \in [ID : HeaderIDs, Flags : 0..65535, QDCount : HeaderCounts,
                 ANCount : {0}, NSCount : {0}, ARCount : {0}]
    /\ rhdr = ZeroHeader
    /\ NameIdle /\ CodecIdle /\ ServerIdle

\* request.Header.BuildResponse()
BuildHeaderResponse ==
    /\ rhdr = ZeroHeader
    /\ rhdr' = HeaderBuildResponse(hdr)
    /\ UNCHANGED <<hdr, nameVars, codecVars, serverVars>>

NextHeader == BuildHeaderResponse

SpecHeader == InitHeader /\ [][NextHeader]_vars

(***************************************************************************)
(* SpecCounts: BuildResponse applied to request headers with every         *)
(* combination of zero and non-zero section counts                         *)
(***************************************************************************)
CountFlags == {0, 256, 10496, 65535}

CountValues == {0, 1, 2, 65535}

InitCounts ==
    /\ hdr \in [ID : HeaderIDs, Flags : CountFlags, QDCount : CountValues,
                 ANCount : CountValues, NSCount : {0, 1}, ARCount : {0, 1}]
    /\ rhdr = ZeroHeader
    /\ NameIdle /\ CodecIdle /\ ServerIdle

SpecCounts == InitCounts /\ [][NextHeader]_vars

(***************************************************************************)
(* SpecAgain: a datagram is parsed, the message is encoded, and the bytes  *)
(* are parsed again                                                        *)
(***************************************************************************)
\* msg.Encode() of the message ParseComplete returned
EncodeParsed ==
    /\ parsed.fn = "ParseComplete" /\ parsed.r.err = ""
    /\ buf' = MessageEncode(parsed.r.msg)
    /\ parsed' = [fn |-> "Encode", r |-> parsed.r]
    /\ UNCHANGED <<nameVars, headerVars, serverVars>>

\* ParseComplete of the bytes Encode returned
ParseAgain ==
    /\ parsed.fn = "Encode"
    /\ parsed' = [fn |-> "ParseAgain", r |-> parsed.r,
                  again |-> MessageParseComplete(buf)]
    /\ UNCHANGED <<buf, nameVars, headerVars, serverVars>>

NextAgain == DoParseComplete \/ EncodeParsed \/ ParseAgain

SpecAgain == InitCodec /\ [][NextAgain]_vars

(***************************************************************************)
(* SpecRound: a record built in memory is encoded, and the bytes are       *)
(* parsed at offset 0                                                      *)
(***************************************************************************)
\* longest RDATA of the answers built
MaxRData == 2

\* values of the 16-bit fields: both bytes zero, one byte zero, both set
RoundFields == {0, 1, 256, 43981, 65535}

\* expanded names: the root, one label, two labels, a label whose content is
\* the byte 0xC0, a label whose content is the byte 0
RoundNames ==
    {<<0>>, <<1, 97, 0>>, <<2, 97, 98, 1, 99, 0>>, <<1, 192, 0>>, <<1, 0, 0>>}

RoundTTLs == {U32(0), U32(60), <<1, 0>>, <<65535, 65535>>}

RoundHeaders ==
    [ID : RoundFields, Flags : RoundFields, QDCount : {0, 1, 65535},
     ANCount : {0, 256}, NSCount : {0, 43981}, ARCount : {0, 1}]

RoundQuestions == [QName : RoundNames, QType : RoundFields, QClass : RoundFields]

\* answers whose RDLength is the length of their RData
RoundAnswers ==
    {[Name |-> n, Type |-> t, Class |-> 1, TTL |-> ttl, RDLength |-> Len(rd),
      RData |-> rd] :
        <<n, t, ttl, rd>> \in
            RoundNames \X {1, 43981} \X RoundTTLs \X SeqsUpTo({0, 8, 192}, MaxRData)}

InitRound ==
    /\ buf = <<>>
    /\ parsed \in
         [fn : {"built"}, kind : {"header"}, rec : RoundHeaders]
           \cup [fn : {"built"}, kind : {"question"}, rec : RoundQuestions]
           \cup [fn : {"built"}, kind : {"answer"}, rec : RoundAnswers]
    /\ NameIdle /\ HeaderIdle /\ ServerIdle

\* h.Encode()
EncodeHeader ==
    /\ parsed.fn = "built" /\ parsed.kind = "header"
    /\ buf' = HeaderEncode(parsed.rec)
    /\ parsed' = [parsed EXCEPT !.fn = "encoded"]
    /\ UNCHANGED <<nameVars, headerVars, serverVars>>

\* q.Encode()
EncodeQuestion ==
    /\ parsed.fn = "built" /\ parsed.kind = "question"
    /\ buf' = QuestionEncode(parsed.rec)
    /\ parsed' = [parsed EXCEPT !.fn = "encoded"]
    /\ UNCHANGED <<nameVars, headerVars, serverVars>>

\* a.Encode()
EncodeAnswer ==
    /\ parsed.fn = "built" /\ parsed.kind = "answer"
    /\ buf' = AnswerEncode(parsed.rec)
    /\ parsed' = [parsed EXCEPT !.fn = "encoded"]
    /\ UNCHANGED <<nameVars, headerVars, serverVars>>

\* h.Parse(buf)
DecodeHeader ==
    /\ parsed.fn = "encoded" /\ parsed.kind = "header"
    /\ parsed' = [fn |-> "decoded", kind |-> "header", rec |-> parsed.rec,
                  out |-> HeaderParse(buf)]
    /\ UNCHANGED <<buf, nameVars, headerVars, serverVars>>

\* q.Parse(buf, 0)
DecodeQuestion ==
    /\ parsed.fn = "encoded" /\ parsed.kind = "question"
    /\ parsed' = [fn |-> "decoded", kind |-> "question", rec |-> parsed.rec,
                  out |-> QuestionParse(buf, 0)]
    /\ UNCHANGED <<buf, nameVars, headerVars, serverVars>>

\* a.Parse(buf, 0)
DecodeAnswer ==
    /\ parsed.fn = "encoded" /\ parsed.kind = "answer"
    /\ parsed' = [fn |-> "decoded", kind |-> "answer", rec |-> parsed.rec,
                  out |-> AnswerParse(buf, 0)]
    /\ UNCHANGED <<buf, nameVars, headerVars, serverVars>>

NextRound ==
    \/ EncodeHeader \/ EncodeQuestion \/ EncodeAnswer
    \/ DecodeHeader \/ DecodeQuestion \/ DecodeAnswer

SpecRound == InitRound /\ [][NextRound]_vars

(***************************************************************************)
(* Spec: the server.  Run reads a datagram, HandleQuery parses it and      *)
(* either answers it locally or forwards it; the resolver is the           *)
(* environment and may reply anything or fail.                             *)
(***************************************************************************)
Resolvers == {"", "127.0.0.1:5354"}

RequestIDs == {4660, 43981}

\* RD=1 standard query; OPCODE=5 with RD=1
RequestFlags == {256, 10496}

\* "a" A IN, as written by a client
WireQA == <<1, 97, 0>> \o <<0, 1, 0, 1>>

\* a pointer to offset 12, AAAA IN
WireQB == <<192, 12>> \o <<0, 28, 0, 1>>

\* an EDNS OPT record, as clients put in the additional section
WireOPT == <<0, 0, 41, 16, 0, 0, 0, 0, 0, 0, 0>>

\* requests with 0..MaxQ questions, with and without an additional record
WholeRequests ==
    {HeaderEncode([ID |-> id, Flags |-> fl, QDCount |-> Len(qs), ANCount |-> 0,
                   NSCount |-> 0, ARCount |-> ar])
       \o Concat(qs) \o (IF ar = 1 THEN WireOPT ELSE <<>>) :
        <<id, fl, ar, qs>> \in
            RequestIDs \X RequestFlags \X {0, 1} \X SeqsUpTo({WireQA, WireQB}, MaxQ)}

\* a request cut short at every length
CutRequests ==
    Prefixes(HeaderEncode([ID |-> 4660, Flags |-> 256, QDCount |-> 1,
                           ANCount |-> 0, NSCount |-> 0, ARCount |-> 0])
               \o WireQA)

Requests == WholeRequests \cup CutRequests

\* the i-th address the resolver answers with
ReplyAnswer(q, i) ==
    [Name |-> <<192, 12>>, Type |-> q.QType, Class |-> q.QClass,
     TTL |-> U32(300), RDLength |-> 4, RData |-> <<10, 0, q.QType, i>>]

\* a reply to the query m with n answers, their names compressed
GoodReply(m, n) ==
    HeaderEncode([ID |-> m.Header.ID, Flags |-> 33152,
                  QDCount |-> Len(m.Questions), ANCount |-> n,
                  NSCount |-> 0, ARCount |-> 0])
      \o Concat([i \in 1..Len(m.Questions) |-> QuestionEncode(m.Questions[i])])
      \o Concat([i \in 1..n |->
                   AnswerEncode(ReplyAnswer(
                     IF m.Questions = <<>> THEN ZeroQuestion ELSE m.Questions[1],
                     i))])

\* what the resolver may send back for the query m: a reply with 0..MaxAns
\* answers, a reply with another ID, a reply cut short, a stray byte
RepliesTo(m) ==
    {GoodReply(m, n) : n \in 0..MaxAns}
      \cup {GoodReply([m EXCEPT !.Header.ID = (m.Header.ID + 1) % 65536], 1)}
      \cup {SubSeq(GoodReply(m, 1), 1, Len(GoodReply(m, 1)) - 1)}
      \cup {<<7>>}

\* what the resolver may send back for the query bytes q
Replies(q) == UNION {RepliesTo(r.msg) : r \in {MessageParseComplete(q)}}

Init ==
    /\ resolver \in Resolvers
    /\ pc = "recv"
    /\ inbuf = <<>> /\ request = ZeroMessage
    /\ qi = 0 /\ allAnswers = <<>> /\ connOpen = FALSE /\ wire = <<>>
    /\ exch = <<>> /\ last = NoOutcome
    /\ NameIdle /\ CodecIdle /\ HeaderIdle

\* Run: ReadFromUDP fails and the loop ends
ReceiveError ==
    /\ pc = "recv"
    /\ pc' = "stopped"
    /\ UNCHANGED <<resolver, inbuf, request, qi, allAnswers, connOpen, wire,
                   exch, last>>
    /\ UNCHANGED <<nameVars, codecVars, headerVars>>

\* Run: ReadFromUDP returns a datagram, and HandleQuery(buf[:size]) is called
Receive ==
    /\ pc = "recv"
    /\ inbuf' \in Requests
    /\ pc' = "handle"
    /\ request' = ZeroMessage
    /\ qi' = 0 /\ allAnswers' = <<>> /\ wire' = <<>> /\ exch' = <<>>
    /\ last' = NoOutcome
    /\ UNCHANGED <<resolver, connOpen>>
    /\ UNCHANGED <<nameVars, codecVars, headerVars>>

\* HandleQuery cannot parse the datagram: Run sends no response.  (A
\* run-time panic would end the process.)
HandleDrop ==
    /\ pc = "handle"
    /\ LET p == MessageParse(inbuf) IN
         /\ p.err # ""
         /\ pc' = IF p.err = "panic" THEN "stopped" ELSE "recv"
    /\ last' = [NoOutcome EXCEPT !.kind = "dropped"]
    /\ UNCHANGED <<resolver, inbuf, request, qi, allAnswers, connOpen, wire, exch>>
    /\ UNCHANGED <<nameVars, codecVars, headerVars>>

\* HandleQuery, with no resolver, builds and encodes the response, and Run
\* sends it
HandleLocal ==
    /\ pc = "handle"
    /\ resolver = ""
    /\ LET p == MessageParse(inbuf)
           response == MessageBuildResponse(p.msg)
       IN  /\ p.err = ""
           /\ request' = p.msg
           /\ last' = [kind |-> "sent", bytes |-> MessageEncode(response),
                       msg |-> response]
    /\ pc' = "recv"
    /\ UNCHANGED <<resolver, inbuf, qi, allAnswers, connOpen, wire, exch>>
    /\ UNCHANGED <<nameVars, codecVars, headerVars>>

\* a mutant of HandleForward: a request with one question is split as well
HandleForwardSplitOne ==
    /\ pc = "handle"
    /\ resolver # ""
    /\ LET p == MessageParse(inbuf) IN
         /\ p.err = ""
         /\ request' = p.msg
         /\ qi' = IF Len(p.msg.Questions) >= 1 THEN 1 ELSE 0
    /\ pc' = "dial"
    /\ UNCHANGED <<resolver, inbuf, allAnswers, connOpen, wire, exch, last>>
    /\ UNCHANGED <<nameVars, codecVars, headerVars>>

\* a mutant of HandleForward: a request is forwarded whole, however many
\* questions it has
HandleForwardWhole ==
    /\ pc = "handle"
    /\ resolver # ""
    /\ LET p == MessageParse(inbuf) IN
         /\ p.err = ""
         /\ request' = p.msg
         /\ qi' = 0
    /\ pc' = "dial"
    /\ UNCHANGED <<resolver, inbuf, allAnswers, connOpen, wire, exch, last>>
    /\ UNCHANGED <<nameVars, codecVars, headerVars>>

\* HandleQuery, with a resolver, calls forwardQuery, which forwards the
\* request itself or, with more than one question, its first question
HandleForward ==
    /\ pc = "handle"
    /\ resolver # ""
    /\ LET p == MessageParse(inbuf) IN
         /\ p.err = ""
         /\ request' = p.msg
         /\ qi' = IF Len(p.msg.Questions) > 1 THEN 1 ELSE 0
    /\ pc' = "dial"
    /\ UNCHANGED <<resolver, inbuf, allAnswers, connOpen, wire, exch, last>>
    /\ UNCHANGED <<nameVars, codecVars, headerVars>>

\* the message forwardSingleQuery was called with
currentQuery == IF qi = 0 THEN request ELSE singleQuery(request, qi)

\* a mutant of Return: the connection is not closed
ReturnOpen(outcome, reply) ==
    /\ exch' = Append(exch, [query |-> currentQuery, wire |-> wire',
                             outcome |-> outcome, reply |-> reply])
    /\ pc' = "returned"
    /\ UNCHANGED <<resolver, inbuf, request, qi, allAnswers, last, connOpen>>
    /\ UNCHANGED <<nameVars, codecVars, headerVars>>

\* forwardSingleQuery returns to its caller: the deferred conn.Close runs
Return(outcome, reply) ==
    /\ exch' = Append(exch, [query |-> currentQuery, wire |-> wire',
                             outcome |-> outcome, reply |-> reply])
    /\ connOpen' = FALSE
    /\ pc' = "returned"
    /\ UNCHANGED <<resolver, inbuf, request, qi, allAnswers, last>>
    /\ UNCHANGED <<nameVars, codecVars, headerVars>>

\* forwardSingleQuery: ResolveUDPAddr or DialUDP fails
DialFail ==
    /\ pc = "dial"
    /\ wire' = <<>>
    /\ Return("dial error", <<>>)

\* forwardSingleQuery: DialUDP opens the connection
Dial ==
    /\ pc = "dial"
    /\ connOpen' = TRUE
    /\ pc' = "write"
    /\ wire' = <<>>
    /\ UNCHANGED <<resolver, inbuf, request, qi, allAnswers, exch, last>>
    /\ UNCHANGED <<nameVars, codecVars, headerVars>>

\* forwardSingleQuery: request.Encode(), then conn.Write fails
WriteFail ==
    /\ pc = "write"
    /\ wire' = <<>>
    /\ Return("write error", <<>>)

\* forwardSingleQuery: request.Encode(), then conn.Write sends the query
Write ==
    /\ pc = "write"
    /\ wire' = MessageEncode(currentQuery)
    /\ pc' = "read"
    /\ UNCHANGED <<resolver, inbuf, request, qi, allAnswers, connOpen, exch, last>>
    /\ UNCHANGED <<nameVars, codecVars, headerVars>>

\* forwardSingleQuery: conn.Read fails
ReadFail ==
    /\ pc = "read"
    /\ UNCHANGED wire
    /\ Return("read error", <<>>)

\* forwardSingleQuery: conn.Read returns a datagram of the resolver
ReadReply ==
    /\ pc = "read"
    /\ UNCHANGED wire
    /\ \E r \in Replies(wire) : Return("reply", r)

\* the exchange forwardSingleQuery has just returned from
lastExchange == exch[Len(exch)]

\* forwardQuery returns what forwardSingleQuery returned, and so does
\* HandleQuery: Run sends the reply as it is, or nothing after an error
ForwardedSingle ==
    /\ pc = "returned"
    /\ qi = 0
    /\ last' = IF lastExchange.outcome = "reply"
               THEN [kind |-> "sent", bytes |-> lastExchange.reply,
                     msg |-> ZeroMessage]
               ELSE [NoOutcome EXCEPT !.kind = "dropped"]
    /\ pc' = "recv"
    /\ UNCHANGED <<resolver, inbuf, request, qi, allAnswers, connOpen, wire, exch>>
    /\ UNCHANGED <<nameVars, codecVars, headerVars>>

\* allAnswers after response.ParseComplete returned p
answersAfter(p) ==
    IF p.err = "" THEN appendAnswers(allAnswers, p.msg.Answers) ELSE allAnswers

\* a mutant of collectAnswers: an error of forwardSingleQuery discards the
\* answers collected so far
collectAnswersReset(x) ==
    IF x.outcome # "reply" THEN <<>>
    ELSE answersAfter(MessageParseComplete(x.reply))

\* forwardMultipleQuestions after an exchange: a reply that ParseComplete
\* accepts adds its answers; an error or any other reply adds nothing
collectAnswers(x) ==
    IF x.outcome # "reply" THEN allAnswers
    ELSE CHOOSE all \in {answersAfter(p) :
                           p \in {MessageParseComplete(x.reply)}} : TRUE

\* forwardMultipleQuestions after the last exchange: the merged response is
\* encoded, and Run sends it
sendMerged(all) ==
    LET merged == mergedResponse(request, all) IN
    [kind |-> "sent", bytes |-> MessageEncode(merged), msg |-> merged]

\* a mutant of ForwardedQuestion: the loop does not end after the last
\* question
ForwardedQuestionNoEnd ==
    /\ pc = "returned"
    /\ qi > 0
    /\ qi < Len(request.Questions)
    /\ allAnswers' = collectAnswers(lastExchange)
    /\ qi' = qi + 1
    /\ pc' = "dial"
    /\ UNCHANGED <<resolver, inbuf, request, connOpen, wire, exch, last>>
    /\ UNCHANGED <<nameVars, codecVars, headerVars>>

\* forwardMultipleQuestions collects the answers of the exchange and forwards
\* the next question or, after the last, returns the merged response
ForwardedQuestion ==
    /\ pc = "returned"
    /\ qi > 0
    /\ allAnswers' = collectAnswers(lastExchange)
    /\ IF qi < Len(request.Questions)
       THEN /\ qi' = qi + 1
            /\ pc' = "dial"
            /\ UNCHANGED last
       ELSE /\ last' = sendMerged(allAnswers')
            /\ pc' = "recv"
            /\ UNCHANGED qi
    /\ UNCHANGED <<resolver, inbuf, request, connOpen, wire, exch>>
    /\ UNCHANGED <<nameVars, codecVars, headerVars>>

Next ==
    \/ ReceiveError \/ Receive \/ HandleDrop \/ HandleLocal \/ HandleForward
    \/ DialFail \/ Dial \/ WriteFail \/ Write \/ ReadFail \/ ReadReply
    \/ ForwardedSingle \/ ForwardedQuestion

Spec == Init /\ [][Next]_vars

\* the steps of HandleQuery and of what it calls: every step of Next but the
\* wait for a datagram
Handling ==
    \/ HandleDrop \/ HandleLocal \/ HandleForward
    \/ DialFail \/ Dial \/ WriteFail \/ Write \/ ReadFail \/ ReadReply
    \/ ForwardedSingle \/ ForwardedQuestion

\* the server whose code runs on, and whose calls on the upstream socket
\* return, with a result or an error
SpecLive == Init /\ [][Next]_vars /\ WF_vars(Handling)

(***************************************************************************)
(* The error kinds of the specification, by the code's error text         *)
(***************************************************************************)
NameErrors ==
    {"too many jumps or labels", "offset out of bounds", "pointer incomplete",
     "label length out of bounds"}

ErrorKind(e) ==
    CASE e = "data too short for header" -> "TruncatedHeader"
      [] e \in NameErrors -> "MalformedName"
      [] e = "insufficient data for QTYPE/QCLASS" -> "TruncatedQuestion"
      [] e \in {"insufficient data for answer fields",
                "insufficient data for RData"} -> "TruncatedAnswer"
      [] e = "" -> "none"
      [] OTHER -> "unknown"

(***************************************************************************)
(* Claims about the name codec                                             *)
(***************************************************************************)
RECURSIVE WrittenLen(_, _)
\* the bytes a name occupies where it is written: its labels up to the first
\* pointer (2 bytes) or the terminating zero (1 byte), no pointer followed
WrittenLen(d, off) ==
    LET b == d[off + 1] IN
    IF IsPointer(b) THEN 2
    ELSE IF b = 0 THEN 1
    ELSE 1 + b + WrittenLen(d, off + 1 + b)

\* C1: whenever decodeName succeeds, bytesConsumed is the number of bytes the
\* name occupies as written at the start offset: 1+len per label before any
\* pointer, 1 for a terminator reached without a jump, 2 for the first
\* pointer, and nothing for whatever is read after the first jump.
C1_BytesConsumed ==
    walk.st = "ok" => walk.bytesConsumed = WrittenLen(data, offset)

\* a label, then a pointer, then a label read after the jump
C1_Witness ==
    /\ walk.st = "ok" /\ walk.jumped
    /\ walk.bytesConsumed = 4
    /\ Len(walk.name) >= 5

\* C2: when the start offset holds a 2-byte pointer (0xC0|hi, lo) to t and
\* decodeName succeeds at t, decodeName at the pointer returns the same
\* expanded name and bytesConsumed = 2.
C2_PointerTransparency ==
    (/\ walk.st # "run"
     /\ offset + 2 <= Len(data)
     /\ IsPointer(data[offset + 1]))
    => LET t == (data[offset + 1] - 192) * 256 + data[offset + 2]
           r == decodeName(data, t)
       IN  r.st = "ok" =>
             /\ walk.st = "ok"
             /\ walk.name = r.name
             /\ walk.bytesConsumed = 2

\* a pointer to a name of at least one label
C2_Witness ==
    /\ walk.st = "ok"
    /\ offset + 2 <= Len(data)
    /\ IsPointer(data[offset + 1])
    /\ Len(walk.name) >= 3
    /\ walk.name = decodeName(data, data[offset + 2]).name

\* C3: decodeName terminates on every buffer and offset, cyclic pointers
\* included: the loop counter never passes maxLoops + 1, the iteration after
\* the maxLoops-th returns the MalformedName error, and every walk returns.
C3_Terminates ==
    /\ [](/\ walk.loops <= maxLoops + 1
          /\ walk.loops > maxLoops =>
                /\ walk.st = "err"
                /\ ErrorKind(walk.err) = "MalformedName")
    /\ <>(walk.st # "run")

\* a label followed by a pointer back to it, stopped by the ceiling
C3_Witness ==
    /\ walk.st = "err"
    /\ walk.err = "too many jumps or labels"
    /\ walk.loops = maxLoops + 1
    /\ ~IsPointer(data[offset + 1])

(***************************************************************************)
(* Claims about decoding a datagram                                        *)
(***************************************************************************)
RECURSIVE NameFault(_, _, _)
\* the name at off cannot be read from d: it runs to the end of the buffer,
\* a label or a pointer is cut short, a pointer leads outside the buffer, or
\* (fuel spent) the pointers lead around in a circle
NameFault(d, off, fuel) ==
    IF fuel = 0 \/ off >= Len(d) THEN TRUE
    ELSE LET b == d[off + 1] IN
         IF b >= 192
         THEN off + 2 > Len(d)
                \/ NameFault(d, (b - 192) * 256 + d[off + 2], fuel - 1)
         ELSE IF b = 0 THEN FALSE
         ELSE off + 1 + b > Len(d) \/ NameFault(d, off + 1 + b, fuel - 1)

\* the offset after the name written at off
NameEnd(d, off) == off + WrittenLen(d, off)

\* C4: Parse and ParseComplete never read outside the buffer (no run-time
\* panic) and report an error instead: TruncatedHeader exactly when the
\* buffer has fewer than 12 bytes; MalformedName exactly when the name of the
\* record being decoded cannot be read; TruncatedQuestion when fewer than 4
\* bytes follow a question's name; TruncatedAnswer when fewer than 10 bytes,
\* or fewer than RDLENGTH bytes after those, follow an answer's name.  A
\* success decoded as many records as the header counts and ended inside
\* the buffer.
C4_DecodeErrors ==
    parsed.fn # "none" =>
      LET r == parsed.r
          k == ErrorKind(r.err)
          len == Len(buf)
          fault == NameFault(buf, r.at, len + 1)
      IN  /\ r.err # "panic"
          /\ k # "unknown"
          /\ (k = "TruncatedHeader") <=> (len < 12)
          /\ (k = "MalformedName") <=>
                (r.sect \in {"question", "answer"} /\ fault)
          /\ (k = "TruncatedQuestion") <=>
                (r.sect = "question" /\ ~fault /\ NameEnd(buf, r.at) + 4 > len)
          /\ (k = "TruncatedAnswer") <=>
                (/\ r.sect = "answer" /\ ~fault
                 /\ LET f == NameEnd(buf, r.at) IN
                      \/ f + 10 > len
                      \/ f + 10 + buf[f + 9] * 256 + buf[f + 10] > len)
          /\ (k = "none") =>
                /\ r.at <= len
                /\ Len(r.msg.Questions) = r.msg.Header.QDCount
                /\ Len(r.msg.Answers) =
                     (IF parsed.fn = "Parse" THEN 0 ELSE r.msg.Header.ANCount)

\* an answer whose name is a pointer and whose RDATA is cut short
C4_Witness ==
    /\ parsed.fn = "ParseComplete"
    /\ parsed.r.err = "insufficient data for RData"
    /\ IsPointer(buf[parsed.r.at + 1])
    /\ Len(parsed.r.msg.Questions) = 1

(***************************************************************************)
(* Claims about the response header                                        *)
(***************************************************************************)
\* the field of width bits whose lowest bit is bit lo of the flags f
FlagField(f, lo, width) == (f \div (2 ^ lo)) % (2 ^ width)

\* C5: for every 16-bit request Flags value the response header has QR=1,
\* the request's OPCODE and RD, AA=TC=RA=0, Z=0, RCODE=0 when OPCODE=0 and
\* RCODE=4 for every other OPCODE, and the request's ID.
C5_ResponseFlags ==
    rhdr # ZeroHeader =>
      LET f == rhdr.Flags
          opcode == FlagField(hdr.Flags, 11, 4)
      IN  /\ rhdr.ID = hdr.ID
          /\ f \in 0..65535
          /\ FlagField(f, 15, 1) = 1
          /\ FlagField(f, 11, 4) = opcode
          /\ FlagField(f, 10, 1) = 0
          /\ FlagField(f, 9, 1) = 0
          /\ FlagField(f, 8, 1) = FlagField(hdr.Flags, 8, 1)
          /\ FlagField(f, 7, 1) = 0
          /\ FlagField(f, 4, 3) = 0
          /\ FlagField(f, 0, 4) = (IF opcode = 0 THEN 0 ELSE 4)

\* a request with OPCODE=5, RD=1 and every other flag bit set
C5_Witness ==
    /\ rhdr # ZeroHeader
    /\ hdr.Flags = 32768 + 5 * 2048 + 2047
    /\ rhdr.Flags = 32768 + 5 * 2048 + 256 + 4

(***************************************************************************)
(* Claims about the server                                                 *)
(***************************************************************************)
\* the request has been parsed and is being, or has been, handled
Handled == pc # "handle" /\ request # ZeroMessage

\* the request is handled by forwardMultipleQuestions
MultiMode == resolver # "" /\ Len(request.Questions) > 1

\* forwardSingleQuery has been entered and has not returned to Run
Forwarding == pc \in {"dial", "write", "read", "returned"}

\* C6: with no resolver, the response to a request with n questions has the
\* request's ID, QDCOUNT = ANCOUNT = n, NSCOUNT = ARCOUNT = 0, the n questions
\* unchanged and in order, and n answers, answer i with the Name, TYPE and
\* CLASS of question i, TTL=60, RDLENGTH=4 and RDATA 8.8.8.8; its bytes are
\* what is sent.
C6_StandaloneResponse ==
    (resolver = "" /\ last.kind = "sent") =>
      LET n == Len(request.Questions)
          m == last.msg
      IN  /\ request = MessageParse(inbuf).msg
          /\ m.Header.ID = Uint16(inbuf, 0)
          /\ m.Header.QDCount = n /\ m.Header.ANCount = n
          /\ m.Header.NSCount = 0 /\ m.Header.ARCount = 0
          /\ m.Questions = request.Questions
          /\ Len(m.Answers) = n
          /\ \A i \in 1..n :
               m.Answers[i] = [Name |-> request.Questions[i].QName,
                               Type |-> request.Questions[i].QType,
                               Class |-> request.Questions[i].QClass,
                               TTL |-> <<0, 60>>, RDLength |-> 4,
                               RData |-> <<8, 8, 8, 8>>]
          /\ last.bytes = MessageEncode(m)

\* a request with an A and an AAAA question has been answered locally
C6_Witness ==
    /\ resolver = "" /\ last.kind = "sent"
    /\ Len(request.Questions) = 2
    /\ request.Questions[1].QType = 1 /\ request.Questions[2].QType = 28
    /\ Len(last.msg.Answers) = 2

\* the answers a sub-reply contributes: those of a reply that decodes
SubReplyAnswers(x) ==
    IF x.outcome = "reply" /\ MessageParseComplete(x.reply).err = ""
    THEN MessageParseComplete(x.reply).msg.Answers
    ELSE <<>>

RECURSIVE AnswersUpTo(_)
\* the answers of the first n sub-replies, in question-index order
AnswersUpTo(n) ==
    IF n = 0 THEN <<>> ELSE AnswersUpTo(n - 1) \o SubReplyAnswers(exch[n])

\* C7: a request with k > 1 questions and a resolver gets exactly one
\* response, after k sub-queries, one per question in order: it has the
\* request's ID, the flags of the response header built from the request
\* header, QDCOUNT=k and the questions unchanged, NSCOUNT=ARCOUNT=0, and as
\* answers the concatenation in question order of the answers of every
\* sub-reply that decodes, with ANCOUNT their number.
C7_MergedResponse ==
    (Handled /\ MultiMode) =>
      LET k == Len(request.Questions) IN
      /\ Forwarding => last.kind = "none"
      /\ ~Forwarding => last.kind = "sent"
      /\ last.kind = "sent" =>
           /\ Len(exch) = k
           /\ \A i \in 1..k :
                /\ exch[i].query.Questions = <<request.Questions[i]>>
                /\ exch[i].query.Header.ID = request.Header.ID
           /\ last.msg.Header.ID = Uint16(inbuf, 0)
           /\ last.msg.Header.Flags = HeaderBuildResponse(request.Header).Flags
           /\ last.msg.Header.QDCount = k
           /\ last.msg.Questions = MessageParse(inbuf).msg.Questions
           /\ last.msg.Header.NSCount = 0 /\ last.msg.Header.ARCount = 0
           /\ last.msg.Answers = AnswersUpTo(k)
           /\ last.msg.Header.ANCount = Len(AnswersUpTo(k))
           /\ last.bytes = MessageEncode(last.msg)

\* two sub-queries were answered, the first with two answers and the second
\* with one, and the three answers were merged in that order
C7_Witness ==
    /\ MultiMode /\ last.kind = "sent"
    /\ Len(exch) = 2
    /\ Len(SubReplyAnswers(exch[1])) = 2
    /\ Len(SubReplyAnswers(exch[2])) = 1
    /\ SubReplyAnswers(exch[1])[1] # SubReplyAnswers(exch[2])[1]
    /\ Len(last.msg.Answers) = 3

\* C8: every response datagram sent to the client carries the ID of the
\* request datagram it answers, in every mode and for every reply of the
\* resolver.
C8_ResponseID ==
    last.kind = "sent" =>
      /\ Len(last.bytes) >= 2
      /\ Uint16(last.bytes, 0) = Uint16(inbuf, 0)

\* the counters of the header of m are the numbers of records Encode writes,
\* and there are no authority or additional records
CountersMatch(m) ==
    /\ m.Header.QDCount = Len(m.Questions)
    /\ m.Header.ANCount = Len(m.Answers)
    /\ m.Header.NSCount = 0 /\ m.Header.ARCount = 0

\* C9: every message the server encodes, a query sent upstream or a response
\* built locally or by merging, has QDCOUNT and ANCOUNT equal to the numbers
\* of questions and answers encoded, and NSCOUNT = ARCOUNT = 0.
C9_Counters ==
    /\ pc = "read" => wire = MessageEncode(currentQuery) /\ CountersMatch(currentQuery)
    /\ \A i \in 1..Len(exch) :
         exch[i].wire # <<>> => CountersMatch(exch[i].query)
    /\ (last.kind = "sent" /\ last.msg # ZeroMessage) => CountersMatch(last.msg)

\* C10: a request whose OPCODE is not 0 is never sent to the resolver, neither
\* whole nor as sub-queries; the response to it carries RCODE=4.
C10_OpcodePolicy ==
    (Handled /\ FlagField(Uint16(inbuf, 2), 11, 4) # 0) =>
      /\ ~Forwarding
      /\ exch = <<>>
      /\ last.kind = "sent" =>
           /\ Len(last.bytes) >= 4
           /\ FlagField(Uint16(last.bytes, 2), 0, 4) = 4

\* C11: when the client datagram does not decode, no response is sent for it,
\* no upstream exchange is started, and the loop reads the next datagram with
\* the server as it was after construction: the same resolver, no connection
\* open, nothing kept of the bad datagram.
C11_BadDatagramDropped ==
    [][(pc = "handle" /\ MessageParse(inbuf).err # "") =>
         /\ pc' = "recv"
         /\ last'.kind = "dropped" /\ last'.bytes = <<>>
         /\ exch' = <<>> /\ wire' = <<>>
         /\ resolver' = resolver
         /\ ~connOpen'
         /\ request' = ZeroMessage /\ qi' = 0 /\ allAnswers' = <<>>]_vars

\* a datagram cut inside its question was dropped while a resolver is set
C11_Witness ==
    /\ pc = "recv" /\ resolver # ""
    /\ Len(inbuf) > 12
    /\ MessageParse(inbuf).err = "insufficient data for QTYPE/QCLASS"
    /\ last.kind = "dropped" /\ exch = <<>>

\* the sub-query of exchange x failed: an error at dial, write or read, or a
\* reply that does not decode
SubQueryFailed(x) ==
    x.outcome # "reply" \/ MessageParseComplete(x.reply).err # ""

\* C12: in Forward-multi a failed sub-query is not retried and not fatal: it
\* leaves the collected answers as they are, the next question is forwarded
\* or, after the last, the merged response is sent with the answers collected;
\* when every sub-query failed the response has ANCOUNT=0 and no answer.
C12_SubQueryFailure ==
    /\ [][(pc = "returned" /\ qi > 0 /\ SubQueryFailed(exch[Len(exch)])) =>
            /\ allAnswers' = allAnswers
            /\ exch' = exch
            /\ qi < Len(request.Questions) =>
                 /\ pc' = "dial" /\ qi' = qi + 1 /\ last'.kind = "none"
            /\ qi = Len(request.Questions) =>
                 /\ pc' = "recv" /\ last'.kind = "sent"
                 /\ last'.msg.Answers = allAnswers
                 /\ last'.msg.Header.ANCount = Len(allAnswers)]_vars
    /\ []((Handled /\ MultiMode /\ pc = "recv") =>
            /\ last.kind = "sent"
            /\ Len(exch) = Len(request.Questions)
            /\ \A i \in 1..Len(exch) :
                 exch[i].query.Questions = <<request.Questions[i]>>
            /\ (\A i \in 1..Len(exch) : SubQueryFailed(exch[i])) =>
                 /\ last.msg.Header.ANCount = 0
                 /\ last.msg.Answers = <<>>
                 /\ Uint16(last.bytes, 6) = 0)

\* the first sub-query was answered with two answers, the second got a
\* reply cut short, and the response carries the two answers
C12_Witness ==
    /\ MultiMode /\ pc = "recv" /\ last.kind = "sent"
    /\ Len(exch) = 2
    /\ ~SubQueryFailed(exch[1])
    /\ exch[2].outcome = "reply" /\ SubQueryFailed(exch[2])
    /\ Len(last.msg.Answers) = 2

\* the request is handled by forwardSingleQuery alone and has one question
SingleMode == resolver # "" /\ Len(request.Questions) = 1

\* C13: with a resolver and exactly one question there is exactly one upstream
\* exchange; what is sent upstream is the encoding of the parsed request, its
\* header as the client wrote it; and the bytes sent to the client are the
\* bytes of the reply read from the resolver, unchanged.
C13_ForwardSingle ==
    (Handled /\ SingleMode) =>
      /\ Len(exch) <= 1
      /\ Forwarding => last.kind = "none"
      /\ pc = "read" =>
           /\ wire = MessageEncode(MessageParse(inbuf).msg)
           /\ SubSeq(wire, 1, 12) = SubSeq(inbuf, 1, 12)
      /\ ~Forwarding =>
           /\ Len(exch) = 1
           /\ exch[1].query = MessageParse(inbuf).msg
           /\ exch[1].outcome \in {"reply", "read error"} =>
                exch[1].wire = MessageEncode(MessageParse(inbuf).msg)
           /\ exch[1].outcome = "reply" =>
                last.kind = "sent" /\ last.bytes = exch[1].reply
           /\ exch[1].outcome # "reply" =>
                last.kind = "dropped" /\ last.bytes = <<>>

\* a one-question request was forwarded and the resolver's reply, with two
\* answers under compressed names, was sent to the client as it came
C13_Witness ==
    /\ Handled /\ SingleMode /\ pc = "recv"
    /\ Len(exch) = 1 /\ exch[1].outcome = "reply"
    /\ MessageParseComplete(exch[1].reply).err = ""
    /\ Len(MessageParseComplete(exch[1].reply).msg.Answers) = 2
    /\ last.bytes = exch[1].reply
    /\ last.bytes # MessageEncode(MessageParseComplete(exch[1].reply).msg)

(***************************************************************************)
(* Claims about the record codecs                                          *)
(***************************************************************************)
\* C14: a header of six 16-bit fields, a question with an expanded name, and
\* an answer with an expanded name and RDLENGTH = length of RDATA, encoded and
\* then parsed at offset 0, come back equal field for field; for a question
\* and an answer the offset returned is the length of the encoding, which is
\* the name plus 4 bytes, or the name plus 10 bytes plus RDATA.
C14_RoundTrip ==
    parsed.fn = "decoded" =>
      /\ parsed.out.err = ""
      /\ parsed.kind = "header" =>
           /\ parsed.out.h = parsed.rec
           /\ Len(buf) = 12
      /\ parsed.kind = "question" =>
           /\ parsed.out.q = parsed.rec
           /\ parsed.out.next = Len(buf)
           /\ Len(buf) = Len(parsed.rec.QName) + 4
      /\ parsed.kind = "answer" =>
           /\ parsed.out.a = parsed.rec
           /\ parsed.out.next = Len(buf)
           /\ Len(buf) = Len(parsed.rec.Name) + 10 + Len(parsed.rec.RData)

\* an answer with a two-label name, a TTL above 16 bits and two bytes of
\* RDATA has made the round trip
C14_Witness ==
    /\ parsed.fn = "decoded" /\ parsed.kind = "answer"
    /\ parsed.rec.Name = <<2, 97, 98, 1, 99, 0>>
    /\ parsed.rec.TTL = <<1, 0>>
    /\ parsed.rec.RData = <<192, 8>>
    /\ parsed.out.a = parsed.rec

RECURSIVE NamesPlain(_, _, _, _)
\* in the buffer d, the nq questions and na answers that start at offset off
\* have their names written without a pointer
NamesPlain(d, off, nq, na) ==
    IF nq = 0 /\ na = 0 THEN TRUE
    ELSE /\ decodeName(d, off).st = "ok"
         /\ ~decodeName(d, off).jumped
         /\ IF nq > 0
            THEN NamesPlain(d, QuestionParse(d, off).next, nq - 1, na)
            ELSE NamesPlain(d, AnswerParse(d, off).next, 0, na - 1)

\* C15: when ParseComplete succeeds on a buffer with message m, ParseComplete
\* of Encode(m) succeeds too, reads the whole encoding and returns a message
\* equal to m in header, questions and answers, also when names of the buffer
\* were compressed; no name of the encoding is written with a pointer.
C15_Idempotence ==
    parsed.fn = "ParseAgain" =>
      /\ parsed.again.err = ""
      /\ parsed.again.msg.Header = parsed.r.msg.Header
      /\ parsed.again.msg.Questions = parsed.r.msg.Questions
      /\ parsed.again.msg.Answers = parsed.r.msg.Answers
      /\ parsed.again.at = Len(buf)
      /\ NamesPlain(buf, 12, Len(parsed.r.msg.Questions),
                    Len(parsed.r.msg.Answers))

\* a message with a question and an answer whose name was a label followed
\* by a pointer has been encoded, longer than it came, and parsed again
C15_Witness ==
    /\ parsed.fn = "ParseAgain"
    /\ Len(parsed.r.msg.Questions) = 1 /\ Len(parsed.r.msg.Answers) = 1
    /\ parsed.r.msg.Answers[1].Name = <<1, 98, 1, 97, 0>>
    /\ parsed.again.msg = parsed.r.msg
    /\ Len(buf) > parsed.r.at

\* the sub-query for question i of the datagram being handled, as the claim
\* describes it: ID and Flags as the client wrote them
SubQuery(i) ==
    [Header |-> [ID |-> Uint16(inbuf, 0), Flags |-> Uint16(inbuf, 2),
                 QDCount |-> 1, ANCount |-> 0, NSCount |-> 0, ARCount |-> 0],
     Questions |-> <<MessageParse(inbuf).msg.Questions[i]>>,
     Answers |-> <<>>]

\* C16: Forward-multi with k questions makes exactly k upstream exchanges,
\* the i-th for question i, each finished before the next starts; sub-query i
\* has the request's ID and Flags, QDCOUNT=1, ANCOUNT=NSCOUNT=ARCOUNT=0 and
\* question i alone, and that is what is written to the resolver.
C16_SubQueries ==
    /\ []((Handled /\ MultiMode) =>
            LET k == Len(request.Questions) IN
            /\ Len(exch) <= k
            /\ \A i \in 1..Len(exch) :
                 /\ exch[i].query = SubQuery(i)
                 /\ exch[i].outcome \in {"reply", "read error"} =>
                      exch[i].wire = HeaderEncode(SubQuery(i).Header)
                                       \o QuestionEncode(SubQuery(i).Questions[1])
            /\ pc \in {"dial", "write", "read"} => qi = Len(exch) + 1 /\ qi <= k
            /\ pc = "returned" => qi = Len(exch)
            /\ pc = "recv" => Len(exch) = k)
    /\ [][(MultiMode /\ exch' # exch /\ pc' # "handle") =>
            /\ pc \in {"dial", "write", "read"}
            /\ pc' = "returned"
            /\ exch' = Append(exch, exch'[Len(exch')])
            /\ ~connOpen']_vars
    /\ [][(MultiMode /\ pc' = "dial" /\ pc = "returned") =>
            /\ ~connOpen
            /\ Len(exch) = qi /\ qi' = qi + 1]_vars

\* a request with OPCODE 5, an additional record and two questions, the
\* second AAAA under a compressed name, has had its two sub-queries made
C16_Witness ==
    /\ Handled /\ MultiMode /\ pc = "recv"
    /\ Uint16(inbuf, 2) = 10496 /\ Uint16(inbuf, 10) = 1
    /\ Len(exch) = 2
    /\ exch[1].query.Questions[1].QType = 1
    /\ exch[2].query.Questions[1].QType = 28
    /\ exch[2].query.Header.Flags = 10496
    /\ exch[1].outcome = "reply" /\ exch[2].outcome = "reply"

(***************************************************************************)
(* Claims about the counts of the response header                          *)
(***************************************************************************)
\* C17: the header BuildResponse returns has QDCOUNT = 0 and ANCOUNT = 0, and
\* NSCOUNT = ARCOUNT = 0, for every request header, whatever the request's
\* QDCOUNT.
C17_CountsZero ==
    rhdr # ZeroHeader =>
      /\ rhdr.QDCount = 0 /\ rhdr.ANCount = 0
      /\ rhdr.NSCount = 0 /\ rhdr.ARCount = 0

\* C17, amended: the header BuildResponse returns has the QDCOUNT of the
\* request header, and ANCOUNT = NSCOUNT = ARCOUNT = 0 whatever the request's
\* counts.
C17_CountsCopied ==
    rhdr # ZeroHeader =>
      /\ rhdr.QDCount = hdr.QDCount
      /\ rhdr.ANCount = 0
      /\ rhdr.NSCount = 0 /\ rhdr.ARCount = 0

\* a response header built from a request header with QDCOUNT=2 and the
\* other counts non-zero
C17_Witness ==
    /\ rhdr # ZeroHeader
    /\ hdr.QDCount = 2 /\ hdr.ANCount = 65535
    /\ hdr.NSCount = 1 /\ hdr.ARCount = 1
    /\ rhdr.QDCount = 2 /\ rhdr.ANCount = 0

\* C18: one datagram at a time: a datagram is read only when the one before
\* has been answered or dropped; a connection to the resolver is open only
\* between a successful dial and the return of the same forwardSingleQuery
\* call, so never two at once, none when the next one is dialled, and none
\* while the server waits for a datagram; the call returns with the
\* connection closed after a reply, a write error and a read error alike.
C18_OneAtATime ==
    /\ [](connOpen => pc \in {"write", "read"})
    /\ []((pc = "handle" \/ Forwarding) => last.kind = "none")
    /\ [][pc' = "handle" =>
            /\ pc = "recv" /\ ~connOpen /\ ~connOpen'
            /\ \/ last.kind \in {"sent", "dropped"}
               \/ (last = NoOutcome /\ inbuf = <<>> /\ exch = <<>>)]_vars
    /\ [][connOpen' /\ ~connOpen => pc = "dial" /\ pc' = "write"]_vars
    /\ [][pc' = "returned" =>
            /\ ~connOpen'
            /\ exch'[Len(exch')].outcome
                 \in {"dial error", "write error", "read error", "reply"}
            /\ exch'[Len(exch')].outcome # "dial error" => connOpen]_vars

\* a two-question request was handled with a write error in the first
\* exchange and a read error in the second, and the server is waiting for the
\* next datagram with no connection open
C18_Witness ==
    /\ pc = "recv" /\ ~connOpen
    /\ Len(exch) = 2
    /\ exch[1].outcome = "write error" /\ exch[2].outcome = "read error"
    /\ last.kind = "sent"

(***************************************************************************)
(* Claims about the stored form of names                                   *)
(***************************************************************************)
RECURSIVE ExpandedFrom(_, _)
\* from index i on, n is a sequence of labels, each a length byte below 0xC0
\* and that many bytes, closed by a zero byte that is the last byte of n
ExpandedFrom(n, i) ==
    /\ i <= Len(n)
    /\ IF n[i] = 0 THEN i = Len(n)
       ELSE /\ n[i] \div 64 # 3
            /\ i + n[i] < Len(n)
            /\ ExpandedFrom(n, i + n[i] + 1)

\* C19: a name decodeName returns, which is the name Parse stores on a
\* Question or an Answer, is in expanded form: length-prefixed labels with no
\* pointer among the length bytes, one zero-length label at the end and none
\* before it; whether it was written plain, as a pointer, or as labels
\* followed by a chain of pointers.
C19_ExpandedNames ==
    walk.st = "ok" => ExpandedFrom(walk.name, 1)

\* a label followed by a pointer to a pointer to a terminator
C19_Witness ==
    /\ walk.st = "ok"
    /\ data = <<0, 192, 0, 1, 97, 192, 1>> /\ offset = 3
    /\ walk.name = <<1, 97, 0>>
    /\ walk.loops = 4

(***************************************************************************)
(* Claims about termination                                                *)
(***************************************************************************)
\* C20: provided the calls on the upstream socket return, the handling of
\* every datagram ends and the server is back in its receive loop: the server
\* is in the receive loop, or has left it on a receive error, again and
\* again, and it stops nowhere but in the receive loop; a forwarded request
\* with more than one question makes as many exchanges as it has questions,
\* any other forwarded request makes one.
C20_HandlingEnds ==
    /\ []<>(pc \in {"recv", "stopped"})
    /\ [][pc' = "stopped" => pc = "recv"]_vars
    /\ [](Forwarding =>
            /\ qi = 0 => Len(exch) <= 1
            /\ qi > 0 => qi <= Len(request.Questions) /\ Len(exch) <= qi)
    /\ []((Handled /\ resolver # "" /\ pc = "recv" /\ last.kind = "sent") =>
            Len(exch) = (IF Len(request.Questions) > 1
                         THEN Len(request.Questions) ELSE 1))

\* the server is blocked reading the reply to the second sub-query of a
\* two-question request
C20_Witness ==
    /\ pc = "read" /\ connOpen
    /\ qi = 2 /\ Len(request.Questions) = 2 /\ Len(exch) = 1

(***************************************************************************)
(* Claims about the handling mode                                          *)
(***************************************************************************)
\* the mode the specification gives for a resolver address and a number of
\* decoded questions
ModeOf(res, n) ==
    IF res = "" THEN "local" ELSE IF n > 1 THEN "multi" ELSE "single"

\* the mode the step out of HandleQuery's parse has taken: the response was
\* built here, or forwardMultipleQuestions started on the first question, or
\* forwardSingleQuery was called with the request
ModeTaken ==
    IF pc' = "recv" /\ last'.kind = "sent" THEN "local"
    ELSE IF pc' = "dial" /\ qi' >= 1 THEN "multi"
    ELSE IF pc' = "dial" /\ qi' = 0 THEN "single"
    ELSE "none"

\* the queries of the exchanges made so far are the request itself
WholeQueries == \A i \in 1..Len(exch) : exch[i].query = request

\* the queries of the exchanges made so far are the questions, one each
SplitQueries ==
    \A i \in 1..Len(exch) :
        /\ i <= Len(request.Questions)
        /\ exch[i].query.Questions = <<request.Questions[i]>>

\* C21: the handling mode is a total, deterministic function of the resolver
\* address and the number of decoded questions.  A datagram that parses is
\* handled by exactly one of two steps, and the step taken is the one ModeOf
\* names; with no resolver nothing is ever dialled, written or exchanged;
\* with a resolver and more than one question the questions are forwarded
\* one each; with a resolver and one or zero questions the request is
\* forwarded whole, in one exchange.
C21_HandlingMode ==
    /\ [][(pc = "handle" /\ MessageParse(inbuf).err = "") =>
            /\ request' = MessageParse(inbuf).msg
            /\ ModeTaken = ModeOf(resolver, Len(request'.Questions))]_vars
    /\ []((pc = "handle" /\ MessageParse(inbuf).err = "") =>
            /\ ~ENABLED HandleDrop
            /\ (ENABLED HandleLocal) # (ENABLED HandleForward)
            /\ (ENABLED HandleLocal) = (resolver = ""))
    /\ [](resolver = "" =>
            /\ ~Forwarding /\ ~connOpen
            /\ qi = 0 /\ wire = <<>> /\ exch = <<>> /\ allAnswers = <<>>)
    /\ []((Handled /\ resolver # "") =>
            /\ Forwarding \/ Len(exch) >= 1
            /\ IF Len(request.Questions) > 1
               THEN /\ Forwarding => qi >= 1
                    /\ SplitQueries
               ELSE /\ qi = 0
                    /\ Len(exch) <= 1
                    /\ WholeQueries)

\* a request with no question, with a resolver set, is forwarded whole: its
\* twelve bytes have been written to the resolver
C21_Witness ==
    /\ resolver # "" /\ Handled /\ pc = "read"
    /\ request.Questions = <<>>
    /\ qi = 0 /\ exch = <<>>
    /\ wire = SubSeq(inbuf, 1, 12)

=============================================================================
